---- MODULE Spec2Model ----
(***************************************************************************)
(* KZG polynomial commitments (src/src/polynomials.rs and                  *)
(* src/src/polynomial_commitments.rs).                                     *)
(*                                                                         *)
(* The scalar field of BLS12-381 is modelled by the prime field of order   *)
(* MODULUS.  G1, G2 and Gt are cyclic groups of that same prime order, so  *)
(* a group element is represented by its discrete logarithm with respect   *)
(* to the group's generator: the G1 element a*G is the scalar a, the       *)
(* generator is 1, the identity is 0, group addition is field addition,    *)
(* multiplication by a scalar is field multiplication and the pairing of   *)
(* a*G1 with b*G2 is (a*b)*e(G1,G2).  A u64 is modelled by 0..U64_MAX with *)
(* U64_MAX + 1 < MODULUS, as 2^64 is smaller than the order of the field.  *)
(***************************************************************************)
EXTENDS Integers, Sequences, FiniteSets, TLC

\* Order of the scalar field (and of G1, G2, Gt); a prime.
MODULUS == 5
\* Largest value of a u64, scaled so that U64_MAX + 1 < MODULUS.
U64_MAX == 3
\* Largest number of coefficients of a polynomial the caller builds.
MaxLen == 2
\* Largest d passed to setup and to adjust_to_degree.
MaxD == 2
\* Largest number of coefficients of a dividend and of a divisor.
MaxDividendLen == 3
MaxDivisorLen == 2

VARIABLES
    global_parameters, \* GenericPolynomialCommitment.global_parameters (Option)
    tau,               \* the trapdoor sampled by the last setup (local to setup)
    setup_d,           \* the d passed to the last setup
    polynomial,        \* the caller's Polynomial (its Vec<Scalar>)
    adjusted_d,        \* the d of the last adjust_to_degree on polynomial, -1 if none
    point,             \* the point of the caller's last create_witness
    commitment,        \* the caller's result of commit(&polynomial)
    opening,           \* the caller's result of create_witness(polynomial, point)
    ret,               \* the last call: its name, arguments and outcome
    aborted,           \* a panic has ended the program
    dividend,          \* division: self
    divisor,           \* division: divisor
    quotient,          \* division: quotient
    remainder,         \* division: remainder
    div_pc,            \* division: position in div
    iterations         \* division: number of executions of the loop body

vars == <<global_parameters, tau, setup_d, polynomial, adjusted_d, point,
          commitment, opening, ret, aborted,
          dividend, divisor, quotient, remainder, div_pc, iterations>>

scheme_vars == <<global_parameters, tau, setup_d, polynomial, adjusted_d, point,
                 commitment, opening, ret, aborted>>

div_vars == <<dividend, divisor, quotient, remainder, div_pc, iterations>>

---------------------------------------------------------------------------
\* Scalar field and groups

Scalar == 0 .. (MODULUS - 1)
U64 == 0 .. U64_MAX

\* Scalar::from(u64)
ScalarFrom(u) == u % MODULUS

Add(a, b) == (a + b) % MODULUS
Neg(a) == (MODULUS - a) % MODULUS
Sub(a, b) == Add(a, Neg(b))
Mul(a, b) == (a * b) % MODULUS

\* Scalar::invert: None on zero
HasInverse(a) == a # 0
Invert(a) == CHOOSE b \in Scalar : Mul(a, b) = 1

\* num_traits::pow(base, exp)
RECURSIVE pow(_, _)
pow(base, exp) == IF exp = 0 THEN 1 ELSE Mul(base, pow(base, exp - 1))

\* G1Projective::generator(), G2Projective::generator()
G1Generator == 1
G2Generator == 1

\* blstrs::pairing
pairing(p, q) == Mul(p, q)

\* G1Projective::multi_exp(points, scalars)
RECURSIVE multi_exp(_, _)
multi_exp(points, scalars) ==
    IF Len(scalars) = 0 THEN 0
    ELSE Add(Mul(Head(scalars), Head(points)),
             multi_exp(Tail(points), Tail(scalars)))

\* All sequences over S of length at most n
SeqsUpTo(S, n) == UNION {[1 .. k -> S] : k \in 0 .. n}

---------------------------------------------------------------------------
\* Polynomial (src/src/polynomials.rs)

\* Polynomial::evaluate
RECURSIVE evaluate_from(_, _, _, _)
evaluate_from(coeffs, pt, i, total) ==
    IF i > Len(coeffs) THEN total
    ELSE evaluate_from(coeffs, pt, i + 1,
                       Add(total, Mul(pow(pt, i - 1), coeffs[i])))

evaluate(coeffs, pt) == evaluate_from(coeffs, pt, 1, ScalarFrom(0))

\* adjust_to_degree cutting a polynomial that is too long to its last d coefficients
adjust_to_degree_keeps_last(coeffs, d, new_randoms) ==
    IF Len(coeffs) < d
    THEN coeffs \o [i \in 1 .. (d - Len(coeffs)) |-> ScalarFrom(new_randoms[i])]
    ELSE IF Len(coeffs) > d
    THEN SubSeq(coeffs, Len(coeffs) - d + 1, Len(coeffs))
    ELSE coeffs

\* Polynomial::adjust_to_degree; new_randoms are the values of rng.next_u64()
adjust_to_degree(coeffs, d, new_randoms) ==
    IF Len(coeffs) < d
    THEN coeffs \o [i \in 1 .. (d - Len(coeffs)) |-> ScalarFrom(new_randoms[i])]
    ELSE IF Len(coeffs) > d
    THEN SubSeq(coeffs, 1, d)
    ELSE coeffs

\* Polynomial::is_zero
is_zero(coeffs) == Len(coeffs) = 0 \/ \A i \in 1 .. Len(coeffs) : coeffs[i] = 0

\* Polynomial::leading_coefficient (of a non-empty polynomial)
leading_coefficient(coeffs) == coeffs[Len(coeffs)]

\* while let Some(true) = remainder.0.last().map(is_zero) { remainder.0.pop(); }
RECURSIVE pop_zeros(_)
pop_zeros(coeffs) ==
    IF Len(coeffs) > 0 /\ coeffs[Len(coeffs)] = 0
    THEN pop_zeros(SubSeq(coeffs, 1, Len(coeffs) - 1))
    ELSE coeffs

\* The condition of the loop of div
div_loop_cond(rem, dsor) == ~is_zero(rem) /\ Len(rem) >= Len(dsor)

\* The body of the loop of div not subtracting the divisor's constant term
div_loop_body_skips_constant(st, dsor) ==
    LET divisor_leading_inv == Invert(leading_coefficient(dsor))
        cur_q_coeff == Mul(leading_coefficient(st.remainder), divisor_leading_inv)
        cur_q_degree == Len(st.remainder) - Len(dsor)
        subtracted == [j \in 1 .. Len(st.remainder) |->
                          IF j > cur_q_degree + 1 /\ j <= cur_q_degree + Len(dsor)
                          THEN Sub(st.remainder[j],
                                   Mul(cur_q_coeff, dsor[j - cur_q_degree]))
                          ELSE st.remainder[j]]
    IN [quotient |-> [st.quotient EXCEPT ![cur_q_degree + 1] = cur_q_coeff],
        remainder |-> pop_zeros(subtracted)]

\* One execution of the body of the loop of div
div_loop_body(st, dsor) ==
    LET divisor_leading_inv == Invert(leading_coefficient(dsor))
        cur_q_coeff == Mul(leading_coefficient(st.remainder), divisor_leading_inv)
        cur_q_degree == Len(st.remainder) - Len(dsor)
        subtracted == [j \in 1 .. Len(st.remainder) |->
                          IF j > cur_q_degree /\ j <= cur_q_degree + Len(dsor)
                          THEN Sub(st.remainder[j],
                                   Mul(cur_q_coeff, dsor[j - cur_q_degree]))
                          ELSE st.remainder[j]]
    IN [quotient |-> [st.quotient EXCEPT ![cur_q_degree + 1] = cur_q_coeff],
        remainder |-> pop_zeros(subtracted)]

RECURSIVE div_loop(_, _)
div_loop(st, dsor) ==
    IF div_loop_cond(st.remainder, dsor)
    THEN div_loop(div_loop_body(st, dsor), dsor)
    ELSE st

\* The branch div takes before its loop
div_branch(self, dsor) ==
    IF is_zero(self) THEN "zero"
    ELSE IF is_zero(dsor) THEN "panic"
    ELSE IF Len(self) < Len(dsor) THEN "zero"
    ELSE IF ~HasInverse(leading_coefficient(dsor)) THEN "panic"
    ELSE "loop"

\* The state the loop starts in, with a quotient one coefficient too short
div_init_short_quotient(self, dsor) ==
    [quotient |-> [i \in 1 .. (Len(self) - Len(dsor)) |-> 0],
     remainder |-> self]

\* impl Div for Polynomial: the state the loop starts in
div_init(self, dsor) ==
    [quotient |-> [i \in 1 .. (Len(self) - Len(dsor) + 1) |-> 0],
     remainder |-> self]

\* impl Div for Polynomial: [panic, quotient]
div(self, dsor) ==
    LET branch == div_branch(self, dsor)
    IN IF branch = "panic" THEN [panic |-> TRUE, quotient |-> <<>>]
       ELSE IF branch = "zero" THEN [panic |-> FALSE, quotient |-> <<ScalarFrom(0)>>]
       ELSE [panic |-> FALSE,
             quotient |-> div_loop(div_init(self, dsor), dsor).quotient]

---------------------------------------------------------------------------
\* Commitment scheme (src/src/polynomial_commitments.rs)

\* Option<GlobalParameters>
NoParameters == [is_some |-> FALSE, gs |-> <<>>, hs |-> <<>>]
SomeParameters(gs, hs) == [is_some |-> TRUE, gs |-> gs, hs |-> hs]

\* The loop of generate_tau_points: for _ in k..length
RECURSIVE tau_points_loop(_, _, _, _, _)
tau_points_loop(generators, generator, t, k, length) ==
    IF k >= length THEN generators
    ELSE tau_points_loop(Append(generators, Mul(generator, t)),
                         Mul(generator, t), t, k + 1, length)

\* generate_tau_points: the generator is pushed before the loop
generate_tau_points(generator, t, length) ==
    tau_points_loop(<<generator>>, generator, t, 1, length)

\* The GlobalParameters setup builds from the sampled u64
setup(d, sampled) ==
    SomeParameters(generate_tau_points(G1Generator, ScalarFrom(sampled), d),
                   generate_tau_points(G2Generator, ScalarFrom(sampled), d))

\* A call's outcome: how it ended, and the value it returned
Returned(v) == [outcome |-> "Ok", value |-> v]
Failed(e) == [outcome |-> e, value |-> 0]
Panicked == [outcome |-> "panic", value |-> 0]

\* commit rejecting only the polynomials shorter than the SRS
commit_accepts_longer(gp, coeffs) ==
    IF ~gp.is_some THEN Failed("SetupIncomplete")
    ELSE IF Len(coeffs) < Len(gp.gs) THEN Failed("IncorrectDegree")
    ELSE Returned(multi_exp(gp.gs, SubSeq(coeffs, 1, Len(gp.gs))))

\* commit
commit(gp, coeffs) ==
    IF ~gp.is_some THEN Failed("SetupIncomplete")
    ELSE IF Len(coeffs) # Len(gp.gs) THEN Failed("IncorrectDegree")
    ELSE Returned(multi_exp(gp.gs, coeffs))

\* create_witness degree-adjusting the quotient to the SRS length (with every
\* sampled u64 equal to 1) before the multi-scalar multiplication
create_witness_adjusts_quotient(gp, coeffs, pt) ==
    LET evaluation == evaluate(coeffs, pt)
    IN IF Len(coeffs) = 0 THEN Panicked
       ELSE LET witness_polynomial == [coeffs EXCEPT ![1] = Sub(coeffs[1], evaluation)]
                dsor == <<Neg(pt), 1>>
                q == div(witness_polynomial, dsor)
            IN IF q.panic THEN Panicked
               ELSE IF ~gp.is_some THEN Panicked
               ELSE LET adjusted == adjust_to_degree(q.quotient, Len(gp.gs),
                                                     [i \in 1 .. Len(gp.gs) |-> 1])
                    IN Returned([witness |-> multi_exp(gp.gs, adjusted),
                                 evaluation |-> evaluation,
                                 witness_polynomial |-> adjusted])

\* create_witness; witness_polynomial is the quotient, the scalars of multi_exp
create_witness(gp, coeffs, pt) ==
    LET evaluation == evaluate(coeffs, pt)
    IN IF Len(coeffs) = 0 THEN Panicked            \* witness_polynomial.0[0]
       ELSE LET witness_polynomial == [coeffs EXCEPT ![1] = Sub(coeffs[1], evaluation)]
                dsor == <<Neg(pt), 1>>
                q == div(witness_polynomial, dsor)
            IN IF q.panic THEN Panicked
               ELSE IF ~gp.is_some THEN Panicked   \* global_parameters.as_ref().unwrap()
               ELSE IF Len(q.quotient) > Len(gp.gs) THEN Panicked  \* gs[..len]
               ELSE Returned([witness |-> multi_exp(SubSeq(gp.gs, 1, Len(q.quotient)),
                                                    q.quotient),
                              evaluation |-> evaluation,
                              witness_polynomial |-> q.quotient])

\* verify_evaluation pairing the witness with hs[0] - point * G2
verify_evaluation_with_hs0(gp, committed_polynomial, pt, evaluation, witness) ==
    LET evaluation_inverse == Mul(G1Generator, Neg(evaluation))
        left_pairing == Add(committed_polynomial, evaluation_inverse)
        lhs == pairing(left_pairing, G2Generator)
        point_commitment_inverted == Mul(G2Generator, Neg(pt))
    IN IF ~gp.is_some THEN Panicked
       ELSE IF Len(gp.hs) < 1 THEN Panicked
       ELSE LET right_side == Add(gp.hs[1], point_commitment_inverted)
                rhs == pairing(witness, right_side)
            IN Returned(lhs = rhs)

\* verify_evaluation
verify_evaluation(gp, committed_polynomial, pt, evaluation, witness) ==
    LET evaluation_inverse == Mul(G1Generator, Neg(evaluation))
        left_pairing == Add(committed_polynomial, evaluation_inverse)
        lhs == pairing(left_pairing, G2Generator)
        point_commitment_inverted == Mul(G2Generator, Neg(pt))
    IN IF ~gp.is_some THEN Panicked                \* global_parameters.as_ref().unwrap()
       ELSE IF Len(gp.hs) < 2 THEN Panicked        \* hs[1]
       ELSE LET right_side == Add(gp.hs[2], point_commitment_inverted)
                rhs == pairing(witness, right_side)
            IN Returned(lhs = rhs)

---------------------------------------------------------------------------
\* The caller's results

NoCommitment == [outcome |-> "None", value |-> 0]
NoOpening == [is_some |-> FALSE, witness |-> 0, evaluation |-> 0]

\* The division is not running
DivIdle ==
    /\ dividend = <<>>
    /\ divisor = <<>>
    /\ quotient = <<>>
    /\ remainder = <<>>
    /\ div_pc = "idle"
    /\ iterations = 0

\* GenericPolynomialCommitment::new(), and a caller holding a polynomial and a point
Init ==
    /\ global_parameters = NoParameters
    /\ tau = 0
    /\ setup_d = 0
    /\ polynomial \in SeqsUpTo(Scalar, MaxLen)
    /\ adjusted_d = -1
    /\ point = 0
    /\ commitment = NoCommitment
    /\ opening = NoOpening
    /\ ret = [op |-> "new", args |-> <<>>, outcome |-> "Ok", value |-> 0]
    /\ aborted = FALSE
    /\ DivIdle

Call(op, args, r) == [op |-> op, args |-> args, outcome |-> r.outcome, value |-> r.value]

\* polynomial_committer.setup(d)
Setup ==
    /\ ~aborted
    /\ \E d \in 0 .. MaxD, sampled \in U64 :
          LET returned == setup(d, sampled)
          IN /\ global_parameters' = returned
             /\ tau' = ScalarFrom(sampled)
             /\ setup_d' = d
             /\ ret' = Call("setup", <<>>, Returned(returned))
    /\ commitment' = NoCommitment
    /\ opening' = NoOpening
    /\ point' = 0
    /\ UNCHANGED <<polynomial, adjusted_d, aborted>>
    /\ UNCHANGED div_vars

\* polynomial.adjust_to_degree(d)
AdjustToDegree ==
    /\ ~aborted
    /\ \E d \in 0 .. MaxD :
          \E new_randoms \in [1 .. (IF Len(polynomial) < d THEN d - Len(polynomial) ELSE 0)
                                -> U64] :
             /\ polynomial' = adjust_to_degree(polynomial, d, new_randoms)
             /\ adjusted_d' = d
             /\ ret' = Call("adjust_to_degree", <<Len(polynomial), d>>, Returned(0))
    /\ commitment' = NoCommitment
    /\ opening' = NoOpening
    /\ point' = 0
    /\ UNCHANGED <<global_parameters, tau, setup_d, aborted>>
    /\ UNCHANGED div_vars

\* commit dropping the stored SRS when it fails
Commit_drops_parameters ==
    /\ ~aborted
    /\ LET r == commit(global_parameters, polynomial)
       IN /\ commitment' = r
          /\ ret' = Call("commit", <<>>, r)
          /\ global_parameters' = IF r.outcome = "Ok" THEN global_parameters
                                  ELSE NoParameters
    /\ UNCHANGED <<tau, setup_d, polynomial, adjusted_d, point, opening, aborted>>
    /\ UNCHANGED div_vars

\* polynomial_committer.commit(&polynomial)
Commit ==
    /\ ~aborted
    /\ LET r == commit(global_parameters, polynomial)
       IN /\ commitment' = r
          /\ ret' = Call("commit", <<>>, r)
    /\ UNCHANGED <<global_parameters, tau, setup_d, polynomial, adjusted_d, point,
                   opening, aborted>>
    /\ UNCHANGED div_vars

\* polynomial_committer.create_witness(polynomial, point)
CreateWitness ==
    /\ ~aborted
    /\ \E pt \in Scalar :
          LET r == create_witness(global_parameters, polynomial, pt)
          IN /\ point' = pt
             /\ ret' = Call("create_witness", <<>>,
                            [r EXCEPT !.value = IF r.outcome = "panic" THEN <<>>
                                                ELSE r.value.witness_polynomial])
             /\ aborted' = (r.outcome = "panic")
             /\ opening' = IF r.outcome = "panic" THEN NoOpening
                           ELSE [is_some |-> TRUE, witness |-> r.value.witness,
                                 evaluation |-> r.value.evaluation]
    /\ UNCHANGED <<global_parameters, tau, setup_d, polynomial, adjusted_d, commitment>>
    /\ UNCHANGED div_vars

\* What the caller holds for the four arguments of verify_evaluation
Held == <<commitment.value, point, opening.evaluation, opening.witness>>

\* What the caller holds, with at most one of the commitment, the evaluation
\* and the witness replaced by another value
HeldOrOneReplaced ==
    {[Held EXCEPT ![i] = v] : i \in {1, 3, 4}, v \in Scalar}

\* polynomial_committer.verify_evaluation(a[1], a[2], a[3], a[4]) for an a of arguments
VerifyEvaluationWith(arguments) ==
    /\ ~aborted
    /\ \E a \in arguments :
          LET r == verify_evaluation(global_parameters, a[1], a[2], a[3], a[4])
          IN /\ ret' = Call("verify_evaluation", a, r)
             /\ aborted' = (r.outcome = "panic")
    /\ UNCHANGED <<global_parameters, tau, setup_d, polynomial, adjusted_d, point,
                   commitment, opening>>
    /\ UNCHANGED div_vars

\* polynomial_committer.verify_evaluation(commitment, point, evaluation, witness)
VerifyEvaluation == VerifyEvaluationWith({Held})

Next ==
    \/ Setup
    \/ AdjustToDegree
    \/ Commit
    \/ CreateWitness
    \/ VerifyEvaluation

Spec == Init /\ [][Next]_vars

---------------------------------------------------------------------------
\* The caller of creates_and_verifies_witness_polynomial_evaluation: setup,
\* commit, create_witness, commitment.unwrap(), verify_evaluation, in this
\* order, for any d, polynomial and point, and with the arguments of
\* verify_evaluation as held or with one of them replaced

TestSetup == ret.op = "new" /\ Setup

TestCommit == ret.op = "setup" /\ Commit

TestCreateWitness == ret.op = "commit" /\ CreateWitness

\* commitment.unwrap() on an Err
TestUnwrapPanics ==
    /\ ret.op = "create_witness"
    /\ ~aborted
    /\ commitment.outcome # "Ok"
    /\ ret' = Call("unwrap", <<>>, Panicked)
    /\ aborted' = TRUE
    /\ UNCHANGED <<global_parameters, tau, setup_d, polynomial, adjusted_d, point,
                   commitment, opening>>
    /\ UNCHANGED div_vars

TestVerifyEvaluation ==
    /\ ret.op = "create_witness"
    /\ commitment.outcome = "Ok"
    /\ VerifyEvaluationWith(HeldOrOneReplaced)

NextRoundTrip ==
    \/ TestSetup
    \/ TestCommit
    \/ TestCreateWitness
    \/ TestUnwrapPanics
    \/ TestVerifyEvaluation

SpecRoundTrip == Init /\ [][NextRoundTrip]_vars

---------------------------------------------------------------------------
\* Division, one step of div at a time

\* The scheme is not in use
SchemeIdle ==
    /\ global_parameters = NoParameters
    /\ tau = 0
    /\ setup_d = 0
    /\ polynomial = <<>>
    /\ adjusted_d = -1
    /\ point = 0
    /\ commitment = NoCommitment
    /\ opening = NoOpening
    /\ ret = [op |-> "new", args |-> <<>>, outcome |-> "Ok", value |-> 0]
    /\ aborted = FALSE

\* dividend / divisor is called
InitDiv ==
    /\ SchemeIdle
    /\ dividend \in SeqsUpTo(Scalar, MaxDividendLen)
    /\ divisor \in SeqsUpTo(Scalar, MaxDivisorLen)
    /\ quotient = <<>>
    /\ remainder = <<>>
    /\ div_pc = "start"
    /\ iterations = 0

\* The tests before the loop: a zero quotient, a panic, or the loop's first state
DivEnter ==
    /\ div_pc = "start"
    /\ LET branch == div_branch(dividend, divisor)
       IN /\ div_pc' = IF branch = "zero" THEN "done" ELSE branch
          /\ quotient' = IF branch = "zero" THEN <<ScalarFrom(0)>>
                         ELSE IF branch = "loop" THEN div_init(dividend, divisor).quotient
                         ELSE quotient
          /\ remainder' = IF branch = "loop" THEN div_init(dividend, divisor).remainder
                          ELSE remainder
    /\ UNCHANGED <<dividend, divisor, iterations>>
    /\ UNCHANGED scheme_vars

\* One execution of the loop's body
DivLoopBody ==
    /\ div_pc = "loop"
    /\ div_loop_cond(remainder, divisor)
    /\ LET st == div_loop_body([quotient |-> quotient, remainder |-> remainder], divisor)
       IN /\ quotient' = st.quotient
          /\ remainder' = st.remainder
    /\ iterations' = iterations + 1
    /\ UNCHANGED <<dividend, divisor, div_pc>>
    /\ UNCHANGED scheme_vars

\* The loop's condition fails: div returns quotient
DivLoopExit ==
    /\ div_pc = "loop"
    /\ ~div_loop_cond(remainder, divisor)
    /\ div_pc' = "done"
    /\ UNCHANGED <<dividend, divisor, quotient, remainder, iterations>>
    /\ UNCHANGED scheme_vars

NextDiv ==
    \/ DivEnter
    \/ DivLoopBody
    \/ DivLoopExit

SpecDiv == InitDiv /\ [][NextDiv]_vars

\* div runs to its end: nothing suspends it
SpecDivFair == SpecDiv /\ WF_vars(NextDiv)

---------------------------------------------------------------------------
\* Properties of the commitment scheme

\* The scheme is Ready and the caller holds commit(polynomial) and
\* create_witness(polynomial, point), both computed with the stored SRS
HonestlyProduced ==
    /\ global_parameters.is_some
    /\ commitment.outcome = "Ok"
    /\ opening.is_some

\* The last call was verify_evaluation with exactly what the caller holds
VerifiedAsHeld == ret.op = "verify_evaluation" /\ ret.args = Held

\* The last call was verify_evaluation with only argument i replaced
VerifiedWithReplaced(i) ==
    /\ ret.op = "verify_evaluation"
    /\ ret.args[i] # Held[i]
    /\ \A j \in (1 .. 4) \ {i} : ret.args[j] = Held[j]

\* The last call returned the boolean b
ReturnedBool(b) == ret.outcome = "Ok" /\ ret.value = b

\* C1: on a Ready scheme, for a polynomial with as many coefficients as the SRS
\* has elements and any point, commit succeeds, create_witness returns
\* y = p.evaluate(x), and verify_evaluation(C, x, y, W) returns true; no step
\* fails or aborts, whatever the SRS length and the trapdoor.
C1_RoundTrip ==
    (global_parameters.is_some /\ Len(polynomial) = Len(global_parameters.gs)) =>
        /\ ret.op = "commit" => ret.outcome = "Ok"
        /\ ret.op = "create_witness" =>
              /\ ret.outcome = "Ok"
              /\ opening.evaluation = evaluate(polynomial, point)
        /\ (HonestlyProduced /\ VerifiedAsHeld) => ReturnedBool(TRUE)

\* The outcome commit is claimed to have
ClaimedCommitOutcome ==
    IF ~global_parameters.is_some THEN "SetupIncomplete"
    ELSE IF Len(polynomial) < Len(global_parameters.gs) THEN "IncorrectDegree"
    ELSE IF Len(polynomial) > Len(global_parameters.gs) THEN "IncorrectDegree"
    ELSE "Ok"

C3_SetupIncompleteSurfaced ==
    (~global_parameters.is_some
        /\ ret.op \in {"commit", "create_witness", "verify_evaluation"}) =>
        (ret.outcome = "SetupIncomplete" /\ ~aborted)

\* C4: after setup(d), gs and hs both have exactly d elements, for every
\* d >= 0, and the stored SRS is the returned one.
C4_SrsShape ==
    /\ global_parameters.is_some =>
          /\ Len(global_parameters.gs) = setup_d
          /\ Len(global_parameters.hs) = setup_d
    /\ ret.op = "setup" => ret.value = global_parameters

\* C5: adjust_to_degree(d) leaves exactly d coefficients: a shorter polynomial
\* keeps its coefficients as a prefix, a longer one is cut to its first d
\* coefficients, one of length d is unchanged.
C5_AdjustToDegree ==
    [][ret'.op = "adjust_to_degree" =>
          LET n == Len(polynomial)
              d == adjusted_d'
          IN /\ Len(polynomial') = d
             /\ n < d => SubSeq(polynomial', 1, n) = polynomial
             /\ n > d => polynomial' = SubSeq(polynomial, 1, d)
             /\ n = d => polynomial' = polynomial]_vars

\* C5 witness: a polynomial shorter than d has been padded to d coefficients
C5_Witness ==
    /\ ret.op = "adjust_to_degree"
    /\ ret.args[1] < ret.args[2]
    /\ Len(polynomial) = ret.args[2]

\* C6: with C, x, y, W honestly produced on a Ready scheme, verify_evaluation
\* returns false when only the evaluation, or only the commitment, is replaced
\* by another value.
C6_TamperedEvaluationOrCommitment ==
    (HonestlyProduced /\ (VerifiedWithReplaced(3) \/ VerifiedWithReplaced(1)))
        => ReturnedBool(FALSE)

C9_SrsLifecycle ==
    [][/\ ret'.op # "setup" => global_parameters' = global_parameters
       /\ global_parameters.is_some => global_parameters'.is_some
       /\ ret'.op = "setup" =>
             /\ ret'.outcome = "Ok"
             /\ global_parameters'.is_some
             /\ global_parameters' = ret'.value]_vars

\* C9 witness: a failed call on a Ready scheme
C9_Witness ==
    /\ global_parameters.is_some
    /\ \/ ret.op = "commit" /\ ret.outcome = "IncorrectDegree"
       \/ aborted

\* C10: every scalar of the field is the trapdoor of some execution of setup.
C10_TrapdoorRange ==
    ~aborted => \A s \in Scalar : ENABLED (Setup /\ tau' = s)

---------------------------------------------------------------------------
\* Properties of the division

\* The coefficient of x^(i-1), zero beyond the stored coefficients
Coeff(p, i) == IF i >= 1 /\ i <= Len(p) THEN p[i] ELSE 0

\* The coefficient of x^(k-1) of the product a * b: the terms from index i on
RECURSIVE ProductCoeff(_, _, _, _)
ProductCoeff(a, b, k, i) ==
    IF i > Len(a) THEN 0
    ELSE Add(Mul(a[i], Coeff(b, k - i + 1)), ProductCoeff(a, b, k, i + 1))

\* a * b
PolyMul(a, b) == [k \in 1 .. (Len(a) + Len(b)) |-> ProductCoeff(a, b, k, 1)]

\* a - b
PolySub(a, b) ==
    [k \in 1 .. (IF Len(a) > Len(b) THEN Len(a) ELSE Len(b)) |->
        Sub(Coeff(a, k), Coeff(b, k))]

\* The number of coefficients up to the last non-zero one: the degree plus one,
\* and 0 for the zero polynomial
Size(p) ==
    IF \A i \in 1 .. Len(p) : p[i] = 0 THEN 0
    ELSE CHOOSE i \in 1 .. Len(p) : p[i] # 0 /\ \A j \in (i + 1) .. Len(p) : p[j] = 0

\* dividend - quotient * divisor
DivisionRemainder == PolySub(dividend, PolyMul(quotient, divisor))

\* The divisor's last stored coefficient is non-zero
DivisorLeadingNonZero == Len(divisor) > 0 /\ divisor[Len(divisor)] # 0

\* C8: for a divisor whose last stored coefficient is non-zero, div returns a
\* quotient q with dividend = q * divisor + r, r of degree below the divisor's;
\* q is zero for a zero or shorter dividend; for a dividend of at least two
\* coefficients with root a and the divisor [-a, 1] the remainder is zero;
\* [2,5,3] / [1,1] = [2,3].
C8_DivisionCorrect ==
    DivisorLeadingNonZero =>
        /\ div_pc # "panic"
        /\ div_pc = "done" =>
              /\ Size(DivisionRemainder) < Len(divisor)
              /\ (Size(dividend) = 0 \/ Len(dividend) < Len(divisor))
                    => Size(quotient) = 0
              /\ \A a \in Scalar :
                    (/\ Len(dividend) >= 2
                     /\ divisor = <<Neg(a), 1>>
                     /\ evaluate(dividend, a) = 0)
                    => Size(DivisionRemainder) = 0
              /\ (/\ dividend = <<ScalarFrom(2), ScalarFrom(5), ScalarFrom(3)>>
                  /\ divisor = <<ScalarFrom(1), ScalarFrom(1)>>)
                    => quotient = <<ScalarFrom(2), ScalarFrom(3)>>

\* C8 witness: a division by a divisor that is not monic, in two executions of
\* the loop's body, leaving a non-zero remainder
C8_Witness ==
    /\ div_pc = "done"
    /\ DivisorLeadingNonZero
    /\ Len(divisor) = 2
    /\ divisor[2] # 1
    /\ iterations = 2
    /\ Size(DivisionRemainder) = 1

---------------------------------------------------------------------------
\* Properties of create_witness

\* p with zero coefficients appended up to n coefficients
ZeroPadded(p, n) == [i \in 1 .. n |-> Coeff(p, i)]

\* create_witness returned on a Ready scheme; ret.value is the polynomial whose
\* multi-scalar multiplication against gs formed the witness
WitnessCreated ==
    /\ global_parameters.is_some
    /\ ret.op = "create_witness"
    /\ ret.outcome = "Ok"

---------------------------------------------------------------------------
\* Properties of the failures and of the loop of the division

\* C12: div panics exactly when the dividend is non-zero and the divisor is the
\* zero polynomial (empty or all coefficients zero); for a zero dividend and
\* for every non-zero divisor it does not fail.
C12_PanicsExactlyOnZeroDivisor ==
    LET by_zero == Size(dividend) # 0 /\ Size(divisor) = 0
    IN /\ div_pc = "panic" => by_zero
       /\ (by_zero /\ div_pc # "start") => div_pc = "panic"

\* The loop of div is about to execute its body
InLoopBody ==
    /\ div_pc = "loop"
    /\ Size(remainder) # 0
    /\ Len(remainder) >= Len(divisor)

\* The indices the body is about to write lie within quotient and remainder
WritesInBounds ==
    LET k == Len(remainder) - Len(divisor)
    IN /\ k >= 0
       /\ k < Len(quotient)
       /\ \A i \in 0 .. (Len(divisor) - 1) : k + i < Len(remainder)

\* C13: for a divisor whose last stored coefficient is non-zero the loop of div
\* ends: every execution of its body shortens the remainder, also when the
\* remainder's last stored coefficient is zero; the body runs at most
\* len(dividend) - len(divisor) + 1 times; and quotient[k] and remainder[k + i]
\* are written within bounds.
C13_LoopTerminatesInBounds ==
    /\ [](DivisorLeadingNonZero =>
             /\ InLoopBody => WritesInBounds
             /\ div_pc \in {"loop", "done"} /\ iterations > 0 =>
                   iterations <= Len(dividend) - Len(divisor) + 1)
    /\ [][(DivisorLeadingNonZero /\ iterations' = iterations + 1) =>
             Len(remainder') < Len(remainder)]_vars
    /\ (DivisorLeadingNonZero => <>(div_pc = "done"))

\* C13 witness: the body ran len(dividend) - len(divisor) + 1 = 3 times on a
\* dividend whose last stored coefficient is zero
C13_Witness ==
    /\ div_pc = "done"
    /\ DivisorLeadingNonZero
    /\ Len(dividend) = 3
    /\ dividend[3] = 0
    /\ iterations = 3
    /\ iterations = Len(dividend) - Len(divisor) + 1

====
